---------------------------- MODULE Spec2Model ----------------------------
(***************************************************************************)
(* Birthday Contributions App (src/app.py): the in-memory contribution     *)
(* store and its HTTP handlers, the gift-suggestion generator with its     *)
(* static fallback tables, and the image lookup.                           *)
(*                                                                         *)
(* Python strings whose characters matter (amounts, prices, keywords) are   *)
(* sequences of one-character strings.  A Python dict with optional keys   *)
(* (a form, the session) is a function whose DOMAIN holds the keys present.*)
(***************************************************************************)
EXTENDS Integers, Sequences, FiniteSets, TLC

VARIABLES contributions, session, now, response, call, threads, confirmed

vars == <<contributions, session, now, response, call, threads, confirmed>>

----------------------------------------------------------------------------
(* Bounds of the model.                                                     *)

MaxContribs == 2

MaxClock == 1

MaxKwLen == 3

MaxPriceLen == 2

MaxItems == 2

MaxImages == 3

MaxThreads == 2

----------------------------------------------------------------------------
(* Characters and strings.                                                  *)

RECURSIVE SeqsUpTo(_, _)
SeqsUpTo(S, n) ==
  IF n = 0 THEN {<<>>}
  ELSE LET shorter == SeqsUpTo(S, n - 1)
       IN  shorter \cup {Append(s, c) : s \in {t \in shorter : Len(t) = n - 1}, c \in S}

Digits == <<"0", "1", "2", "3", "4", "5", "6", "7", "8", "9">>

IsDigit(c) == \E i \in 1..10 : Digits[i] = c

DigitVal(c) == (CHOOSE i \in 1..10 : Digits[i] = c) - 1

LowerLetters ==
  <<"a", "b", "c", "d", "e", "f", "g", "h", "i", "j", "k", "l", "m",
    "n", "o", "p", "q", "r", "s", "t", "u", "v", "w", "x", "y", "z">>

UpperLetters ==
  <<"A", "B", "C", "D", "E", "F", "G", "H", "I", "J", "K", "L", "M",
    "N", "O", "P", "Q", "R", "S", "T", "U", "V", "W", "X", "Y", "Z">>

IsLower(c) == \E i \in 1..Len(LowerLetters) : LowerLetters[i] = c

IsUpper(c) == \E i \in 1..Len(UpperLetters) : UpperLetters[i] = c

\* str.lower() and str.upper() on one character.
LowerChar(c) ==
  IF IsUpper(c) THEN LowerLetters[CHOOSE i \in 1..Len(UpperLetters) : UpperLetters[i] = c]
  ELSE c

UpperChar(c) ==
  IF IsLower(c) THEN UpperLetters[CHOOSE i \in 1..Len(LowerLetters) : LowerLetters[i] = c]
  ELSE c

\* str.lower()
Lower(s) == [i \in 1..Len(s) |-> LowerChar(s[i])]

\* str.capitalize() in place of str.title(): only the first character is
\* upper-cased.
Capitalize(s) ==
  [i \in 1..Len(s) |-> IF i = 1 THEN UpperChar(s[i]) ELSE LowerChar(s[i])]

\* str.title(): a cased character that follows an uncased one (or starts the
\* string) is upper-cased, every other cased character is lower-cased.
Title(s) ==
  [i \in 1..Len(s) |->
     IF i = 1 \/ ~(IsLower(s[i - 1]) \/ IsUpper(s[i - 1]))
     THEN UpperChar(s[i])
     ELSE LowerChar(s[i])]

\* str.replace(c, ''): every occurrence of the character removed.
RECURSIVE Remove(_, _)
Remove(s, c) ==
  IF s = <<>> THEN <<>>
  ELSE IF Head(s) = c THEN Remove(Tail(s), c)
       ELSE <<Head(s)>> \o Remove(Tail(s), c)

RECURSIVE LStrip(_)
LStrip(s) == IF s # <<>> /\ Head(s) = " " THEN LStrip(Tail(s)) ELSE s

RECURSIVE RStrip(_)
RStrip(s) ==
  IF s # <<>> /\ s[Len(s)] = " " THEN RStrip(SubSeq(s, 1, Len(s) - 1)) ELSE s

\* The whitespace strip int() and float() apply to their argument.
Strip(s) == RStrip(LStrip(s))

RECURSIVE DigitsToInt(_)
DigitsToInt(s) ==
  IF s = <<>> THEN 0
  ELSE 10 * DigitsToInt(SubSeq(s, 1, Len(s) - 1)) + DigitVal(s[Len(s)])

AllDigits(s) == \A i \in 1..Len(s) : IsDigit(s[i])

----------------------------------------------------------------------------
(* Python values.                                                           *)

\* Python's None.
NoneVal == "<None>"

\* A dict with no key.
EmptyDict == [k \in {} |-> NoneVal]

PyInt(n) == [t |-> "int", v |-> n]

\* A float with the decimal digits m and e digits after the point, trailing
\* zeros dropped so that equal numbers are equal values (25.00 = 25.0).
RECURSIVE PyFloat(_, _)
PyFloat(m, e) ==
  IF e > 0 /\ m % 10 = 0 THEN PyFloat(m \div 10, e - 1)
  ELSE [t |-> "float", m |-> m, e |-> e]

PyStr(s) == [t |-> "str", s |-> s]

ValueError == [t |-> "ValueError"]

\* int(text): surrounding whitespace stripped, one optional sign, then one or
\* more decimal digits; anything else raises ValueError.
ParseInt(text) ==
  LET body   == Strip(text)
      signed == body # <<>> /\ Head(body) \in {"-", "+"}
      digits == IF signed THEN Tail(body) ELSE body
  IN  IF digits = <<>> \/ ~AllDigits(digits) THEN ValueError
      ELSE IF signed /\ Head(body) = "-" THEN PyInt(0 - DigitsToInt(digits))
      ELSE PyInt(DigitsToInt(digits))

\* str(n) for an integer n, as url_for writes a query parameter.
RECURSIVE NatToText(_)
NatToText(n) ==
  IF n < 10 THEN <<Digits[n + 1]>>
  ELSE NatToText(n \div 10) \o <<Digits[(n % 10) + 1]>>

IntToText(n) == IF n < 0 THEN <<"-">> \o NatToText(0 - n) ELSE NatToText(n)

\* float(text) on unsigned decimal text: surrounding whitespace stripped,
\* digits with at most one point and at least one digit; anything else
\* raises ValueError.
ParseFloat(text) ==
  LET body   == Strip(text)
      points == {i \in 1..Len(body) : body[i] = "."}
      digits == Remove(body, ".")
      e      == IF points = {} THEN 0 ELSE Len(body) - (CHOOSE i \in points : TRUE)
  IN  IF digits = <<>> \/ ~AllDigits(digits) \/ Cardinality(points) > 1 THEN ValueError
      ELSE PyFloat(DigitsToInt(digits), e)

\* The conversion without the removal of the thousands separator.
NormalizePriceDollarOnly(s) == ParseFloat(Remove(s, "$"))

\* float(price.replace('$', '').replace(',', ''))
NormalizePrice(s) == ParseFloat(Remove(Remove(s, "$"), ","))

----------------------------------------------------------------------------
(* Image lookup (get_gift_images).                                          *)

\* What the image API does with the request: the request itself raises, the
\* status check raises, the body is not JSON, the JSON is not an object, the
\* object has no 'results', or it has a list of photos; a photo is its regular
\* url, or Malformed when it has no urls.regular.
Malformed == "<malformed>"

HttpErrorKinds == {"request_error", "status_error", "json_error", "not_dict"}

\* The request the function sends: the query, the page size, the credential.
ImageRequest(keyword, count, access_key) ==
  [query |-> keyword, per_page |-> count, authorization |-> access_key]

\* The credential test written as "is None": an empty credential passes it.
GetGiftImagesKeyNoneOnly(keyword, count, access_key, http) ==
  IF access_key = NoneVal THEN <<>>
  ELSE IF http.kind \in HttpErrorKinds THEN <<>>
  ELSE IF http.kind = "no_results" THEN <<>>
  ELSE IF \E i \in 1..Len(http.results) : http.results[i] = Malformed THEN <<>>
  ELSE http.results

GetGiftImages(keyword, count, access_key, http) ==
  IF access_key = NoneVal \/ access_key = "" THEN <<>>
  ELSE IF http.kind \in HttpErrorKinds THEN <<>>
  ELSE IF http.kind = "no_results" THEN <<>>
  ELSE IF \E i \in 1..Len(http.results) : http.results[i] = Malformed THEN <<>>
  ELSE http.results

----------------------------------------------------------------------------
(* Gift suggestions (get_gift_suggestions).                                 *)

\* A formatted string: literal text around an inserted string.
Fmt(pre, kw, post) == [pre |-> pre, kw |-> kw, post |-> post]

Lit(text) == Fmt(text, <<>>, "")

KwPractical == <<"p", "r", "a", "c", "t", "i", "c", "a", "l">>

KwFun == <<"f", "u", "n">>

KwLuxury == <<"l", "u", "x", "u", "r", "y">>

KwPremium == <<"p", "r", "e", "m", "i", "u", "m">>

\* A keyword the caller did not supply (request.form.get('keyword') is None).
KwNone == <<NoneVal>>

FallbackKeys == {KwPractical, KwFun, KwLuxury, KwPremium}

\* images[i] if the list has it, else None (Python indexes from 0).
ImageAt(images, i) == IF Len(images) > i THEN images[i + 1] ELSE NoneVal

FixedItem(name, description, budget, reason, images, i) ==
  [name |-> Lit(name), description |-> Lit(description), price |-> PyInt(budget),
   reason |-> Lit(reason), image_url |-> ImageAt(images, i)]

FallbackTable(budget, images) ==
  [k \in FallbackKeys |->
     CASE k = KwPractical ->
          << FixedItem("Multi-tool Kit", "A compact multi-tool with various functions for everyday use. Perfect for someone who appreciates functional and reliable tools.", budget, "Combines practicality with versatility for daily tasks.", images, 0),
             FixedItem("Insulated Water Bottle", "Stainless steel water bottle that keeps drinks cold for 24 hours or hot for 12 hours. Eco-friendly and durable.", budget, "Essential for staying hydrated on the go.", images, 1),
             FixedItem("Portable Charger", "Compact power bank for charging devices on the go. Fast charging technology with multiple USB ports.", budget, "Never run out of battery when you need it most.", images, 2) >>
       [] k = KwFun ->
          << FixedItem("Strategy Board Game", "Engaging board game perfect for family game nights. Hours of entertainment with challenging gameplay.", budget, "Creates memorable moments with friends and family.", images, 0),
             FixedItem("Wireless Gaming Headphones", "High-quality wireless headphones with surround sound for immersive gaming experience.", budget, "Enhances gaming sessions with superior audio quality.", images, 1),
             FixedItem("3D Puzzle Set", "Challenging 3D puzzle set for hours of creative entertainment. Develops problem-solving skills.", budget, "Provides intellectual stimulation and satisfaction of completion.", images, 2) >>
       [] k = KwLuxury ->
          << FixedItem("Designer Leather Wallet", "Premium leather wallet with multiple card slots and RFID protection. Handcrafted with attention to detail.", budget, "Elevates everyday carry with sophistication and quality.", images, 0),
             FixedItem("Artisan Scented Candle Collection", "Luxury scented candles with elegant fragrances. Hand-poured with natural soy wax and essential oils.", budget, "Creates a relaxing ambiance and aromatic experience.", images, 1),
             FixedItem("Silk Sleep Mask", "Beautiful silk sleep mask with adjustable strap. Ultra-soft and comfortable for better sleep.", budget, "Promotes restful sleep with luxurious comfort.", images, 2) >>
       [] k = KwPremium ->
          << FixedItem("Smart Fitness Watch", "Advanced smartwatch with health tracking, GPS, and heart rate monitoring. Premium build quality.", budget, "Combines technology with health and fitness tracking.", images, 0),
             FixedItem("Wireless Noise-Cancelling Earbuds", "Premium wireless earbuds with active noise cancellation and superior sound quality.", budget, "Delivers exceptional audio experience in any environment.", images, 1),
             FixedItem("Executive Leather Briefcase", "High-quality leather briefcase with organized compartments and professional design.", budget, "Perfect for the modern professional who values quality and style.", images, 2) >>]

\* The default of fallback_suggestions.get: two templated items.
GenericFallback(keyword, budget, images) ==
  << [name        |-> Fmt("Premium ", Title(keyword), " Gift"),
      description |-> Fmt("A thoughtful and high-quality gift related to ", keyword, " interests. Carefully selected for its excellence and appeal."),
      price       |-> PyInt(budget),
      reason      |-> Fmt("Matches ", keyword, " interests with premium quality and attention to detail."),
      image_url   |-> ImageAt(images, 0)],
     [name        |-> Fmt("Custom ", Title(keyword), " Experience"),
      description |-> Fmt("Personalized experience based on ", keyword, " preferences. Unique and memorable way to celebrate."),
      price       |-> PyInt(IF budget > 5 THEN budget - 5 ELSE budget),
      reason      |-> Fmt("Creates lasting memories centered around ", keyword, " passion."),
      image_url   |-> ImageAt(images, 1)] >>

\* The table looked up with the keyword as supplied, not lower-cased.
SelectFallbackCaseSensitive(keyword, budget, images) ==
  IF keyword \in FallbackKeys
  THEN FallbackTable(budget, images)[keyword]
  ELSE GenericFallback(keyword, budget, images)

\* fallback_suggestions.get(keyword.lower(), [...])
SelectFallback(keyword, budget, images) ==
  IF Lower(keyword) \in FallbackKeys
  THEN FallbackTable(budget, images)[Lower(keyword)]
  ELSE GenericFallback(keyword, budget, images)

\* The loop after the selection: an item without 'image_url' gets images[i].
FillImages(suggestions, images) ==
  [i \in 1..Len(suggestions) |->
     IF "image_url" \notin DOMAIN suggestions[i] /\ i - 1 < Len(images)
     THEN [k \in DOMAIN suggestions[i] \cup {"image_url"} |->
             IF k = "image_url" THEN images[i] ELSE suggestions[i][k]]
     ELSE suggestions[i]]

\* The except branch: the images are looked up again, the fallback selected;
\* keyword.lower() on None raises out of the function.
Fallback(keyword, budget, access_key, http) ==
  LET images == GetGiftImages(keyword, 5, access_key, http)
  IN  IF keyword = KwNone THEN [via |-> "raised", type |-> "AttributeError", value |-> <<>>]
      ELSE [via |-> "fallback", type |-> "list",
            value |-> FillImages(SelectFallback(keyword, budget, images), images)]

\* The prompt's variable parts: the keyword and the budget band.
Prompt(keyword, budget) ==
  [keyword |-> keyword,
   low     |-> IF budget - 10 > 10 THEN budget - 10 ELSE 10,
   high    |-> budget + 10]

\* A JSON object of the parsed array.
IsObject(x) == x.json = "object"

HasStrPrice(x) == IsObject(x) /\ "price" \in DOMAIN x.fields /\ x.fields.price.t = "str"

\* One pass of the loop over a parsed suggestion: a string price becomes a
\* float, the image url is set.
ProcessItem(x, images, i) ==
  [k \in DOMAIN x.fields \cup {"image_url"} |->
     IF k = "image_url" THEN ImageAt(images, i)
     ELSE IF k = "price" /\ x.fields.price.t = "str" THEN NormalizePrice(x.fields.price.s)
     ELSE x.fields[k]]

\* The loop raises on an element that is no object (TypeError) and on a string
\* price float() rejects (ValueError).
ItemRaises(x) ==
  \/ ~IsObject(x)
  \/ HasStrPrice(x) /\ NormalizePrice(x.fields.price.s) = ValueError

\* len() of the parsed value raises for a number, a boolean and null.
Sized(parsed) == parsed.json \in {"array", "object", "string"}

\* gen: what the generative call and the parse of its text produce;
\* http1, http2: what the image API does on the first and the second lookup
\* of this call.
GetGiftSuggestions(keyword, budget, gen, access_key, http1, http2) ==
  IF gen.kind = "raise" \/ gen.parsed.json = "invalid" \/ ~Sized(gen.parsed)
  THEN Fallback(keyword, budget, access_key, http1)
  ELSE LET items  == gen.parsed.items
           images == GetGiftImages(keyword, Len(items), access_key, http1)
       IN  IF \E i \in 1..Len(items) : ItemRaises(items[i])
           THEN Fallback(keyword, budget, access_key, http2)
           ELSE [via |-> "generated", type |-> gen.parsed.json,
                 value |-> [i \in 1..Len(items) |-> ProcessItem(items[i], images, i - 1)]]

----------------------------------------------------------------------------
(* Inputs of the generator and of the image lookup.                         *)

Clients == {"c1", "c2"}

KwChars == {"f", "u", "n", "F", "-"}

KwTitledPractical == <<"P", "r", "a", "c", "t", "i", "c", "a", "l">>

KwUpperLuxury == <<"L", "U", "X", "U", "R", "Y">>

KwSciFi == <<"s", "c", "i", "-", "f", "i">>

KwCustom == <<"c", "u", "s", "t", "o", "m">>

KwGeneral == <<"g", "e", "n", "e", "r", "a", "l">>

\* Keywords spelled out, and every keyword of up to MaxKwLen characters.
NamedKeywords ==
  {KwPractical, KwTitledPractical, KwFun, KwLuxury, KwUpperLuxury, KwPremium, KwSciFi,
   KwGeneral}

Keywords == SeqsUpTo(KwChars, MaxKwLen) \cup NamedKeywords

Budgets == {0 - 5, 0, 5, 6, 40}

UrlPool == <<"u1", "u2", "u3", "u4", "u5">>

Urls(n) == SubSeq(UrlPool, 1, n)

HttpError(kind) == [kind |-> kind, results |-> <<>>]

HttpOk(results) == [kind |-> "ok", results |-> results]

HttpOutcomes ==
  {HttpError(k) : k \in HttpErrorKinds \cup {"no_results"}}
    \cup {HttpOk(r) : r \in SeqsUpTo({"u1", "u2", Malformed}, MaxImages)}

AccessKeys == {NoneVal, "", "k3y"}

\* The image side of a call: the credential and the two lookups' outcomes.
ImageEnv(access_key, http1, http2) ==
  [access_key |-> access_key, http1 |-> http1, http2 |-> http2]

ImageEnvs ==
  {ImageEnv(NoneVal, HttpOk(Urls(2)), HttpOk(Urls(2))),
   ImageEnv("k3y", HttpError("request_error"), HttpOk(Urls(1)))}
    \cup {ImageEnv("k3y", HttpOk(Urls(n)), HttpOk(Urls(n))) : n \in 0..MaxImages}

GenRaise == [kind |-> "raise"]

GenText(parsed) == [kind |-> "text", parsed |-> parsed]

\* json.loads of the text after the fence is cut: it raises, or gives a value.
JsonInvalid == [json |-> "invalid", items |-> <<>>]

JsonScalar == [json |-> "scalar", items |-> <<>>]

JsonArray(items) == [json |-> "array", items |-> items]

\* Iterating an object gives its keys, iterating a string its characters.
JsonObject(n) == [json |-> "object", items |-> [i \in 1..n |-> JsonScalar]]

JsonString(n) == [json |-> "string", items |-> [i \in 1..n |-> JsonScalar]]

Obj(fields) == [json |-> "object", fields |-> fields]

PriceChars == {"$", ",", ".", "5", "x"}

SamplePrices ==
  {<<"$", "2", "5", ".", "0", "0">>, <<"$", "1", ",", "2", "5", "0", ".", "5", "0">>,
   <<" ", "$", "5", " ">>, <<"2", "5", " ", "x">>, <<"$", "5", " ", "$", "9">>}

PriceStrings == SeqsUpTo(PriceChars, MaxPriceLen) \cup SamplePrices

SmallItems ==
  {Obj([name |-> "Mug"]),
   Obj([name |-> "Mug", price |-> PyInt(20)]),
   Obj([name |-> "Mug", price |-> PyStr(<<"$", "5">>)]),
   JsonScalar}

ProbeItems ==
  SmallItems
    \cup {Obj([name |-> "Tea", price |-> PyStr(s)]) : s \in PriceStrings}
    \cup {Obj([name |-> "Tea", price |-> PyFloat(195, 1)]),
          Obj([name |-> "Tea", price |-> [t |-> "null"]])}

InsertAt(s, k, x) == SubSeq(s, 1, k) \o <<x>> \o SubSeq(s, k + 1, Len(s))

\* Arrays of 1..MaxItems elements: one element drawn from ProbeItems among
\* elements drawn from SmallItems.
ParsedArrays ==
  UNION {{JsonArray(InsertAt(base, k, x)) : k \in 0..Len(base), x \in ProbeItems} :
           base \in SeqsUpTo(SmallItems, MaxItems - 1)}

FailingGens == {GenRaise, GenText(JsonInvalid), GenText(JsonScalar)}

ParsedGens ==
  {GenText(p) : p \in ParsedArrays}
    \cup {GenText(JsonArray(<<>>))}
    \cup {GenText(JsonObject(n)) : n \in 0..1}
    \cup {GenText(JsonString(n)) : n \in 0..1}

----------------------------------------------------------------------------
(* Calls of the two functions on their own: the initial state holds the     *)
(* arguments and what the outside world will answer, the action applies the *)
(* function.                                                                *)

NoCall == [fn |-> "none", done |-> TRUE]

SuggestionArgs(keyword, budget, gen, env) ==
  [fn |-> "get_gift_suggestions", done |-> FALSE, keyword |-> keyword,
   budget |-> budget, gen |-> gen, env |-> env]

\* The call as it stands when get_gift_suggestions has returned or raised.
SuggestionCall(keyword, budget, gen, env) ==
  [fn |-> "get_gift_suggestions", done |-> TRUE, keyword |-> keyword,
   budget |-> budget, gen |-> gen, env |-> env, prompt |-> Prompt(keyword, budget),
   result |-> GetGiftSuggestions(keyword, budget, gen, env.access_key, env.http1, env.http2)]

ImagesArgs(keyword, count, access_key, http) ==
  [fn |-> "get_gift_images", done |-> FALSE, keyword |-> keyword, count |-> count,
   access_key |-> access_key, http |-> http]

ImagesCall(keyword, count, access_key, http) ==
  [fn |-> "get_gift_images", done |-> TRUE, keyword |-> keyword, count |-> count,
   access_key |-> access_key, http |-> http,
   request |-> ImageRequest(keyword, count, access_key),
   result |-> GetGiftImages(keyword, count, access_key, http)]

\* The lookups differ (the first fails), or both give two urls.
TwoLookupEnvs == {e \in ImageEnvs : e.http1 # e.http2 \/ Len(e.http1.results) = 2}

PendingCalls ==
  {SuggestionArgs(keyword, budget, gen, env) :
     keyword \in NamedKeywords \cup {KwNone}, budget \in Budgets, gen \in FailingGens,
     env \in ImageEnvs}
    \cup {SuggestionArgs(keyword, budget, GenRaise, env) :
            keyword \in Keywords, budget \in {0 - 5, 6}, env \in TwoLookupEnvs}
    \cup {SuggestionArgs(KwFun, 6, gen, env) : gen \in ParsedGens, env \in TwoLookupEnvs}
    \cup {ImagesArgs(KwSciFi, count, access_key, http) :
            count \in 0..MaxImages, access_key \in AccessKeys, http \in HttpOutcomes}

ThreadIds == 1..MaxThreads

\* A worker thread that is handling no request.
Idle == [pc |-> "idle"]

\* No request is being answered.
NoResponse == [route |-> "none"]

AppUnchanged == UNCHANGED <<contributions, session, now, response, threads, confirmed>>

\* get_gift_suggestions when the generative call or the parse fails.
SuggestFailing ==
  /\ call.fn = "get_gift_suggestions" /\ ~call.done
  /\ call.gen \in FailingGens
  /\ call' = SuggestionCall(call.keyword, call.budget, call.gen, call.env)
  /\ AppUnchanged

\* get_gift_suggestions when the text parses as JSON.
SuggestParsed ==
  /\ call.fn = "get_gift_suggestions" /\ ~call.done
  /\ call.gen \notin FailingGens
  /\ call' = SuggestionCall(call.keyword, call.budget, call.gen, call.env)
  /\ AppUnchanged

LookupImages ==
  /\ call.fn = "get_gift_images" /\ ~call.done
  /\ call' = ImagesCall(call.keyword, call.count, call.access_key, call.http)
  /\ AppUnchanged

InitStore ==
  /\ contributions = <<>>
  /\ session = [c \in Clients |-> EmptyDict]
  /\ now = 0
  /\ response = NoResponse
  /\ threads = [t \in ThreadIds |-> Idle]
  /\ confirmed = <<>>

InitGift == InitStore /\ call \in PendingCalls

NextGift == SuggestFailing \/ SuggestParsed \/ LookupImages

SpecGift == InitGift /\ [][NextGift]_vars

----------------------------------------------------------------------------
(* The web application: requests handled one at a time.                     *)

\* The texts a client may send as an amount.
BadAmountTexts == {<<>>, <<"1", ".", "5">>}

\* The contribution forms and query strings clients send: 'amount' and 'name',
\* each optional.
Forms ==
  {[amount |-> <<" ", "1", "5">>, name |-> "Ann"],
   [amount |-> <<"+", "2", "0">>],
   [amount |-> <<"-", "5">>, name |-> "Bob"],
   [name |-> "Ann"]}
    \cup {[amount |-> a, name |-> "Ann"] : a \in BadAmountTexts}
    \cup {[amount |-> <<"x">>]}

\* dict.get(key, default)
Get(d, key, default) == IF key \in DOMAIN d THEN d[key] ELSE default

RECURSIVE SumAmounts(_)
\* sum(c['amount'] for c in contributions)
SumAmounts(cs) == IF cs = <<>> THEN 0 ELSE cs[1].amount + SumAmounts(Tail(cs))

\* The record process_payment builds; the timestamp is the clock's reading.
Contribution(name, amount, t) == [name |-> name, amount |-> amount, timestamp |-> t]

\* insert(0, ...) in place of append: the newest record first.
StorePrepend(cs, c) == <<c>> \o cs

\* The newest record written over the last one.
StoreReplaceLast(cs, c) == IF cs = <<>> THEN <<c>> ELSE [cs EXCEPT ![Len(cs)] = c]

\* contributions.append(contribution)
StoreAppend(cs, c) == Append(cs, c)

\* session['last_amount'] = amount; session['last_name'] = name
SessionSet(sess, amount, name) ==
  [k \in DOMAIN sess \cup {"last_amount", "last_name"} |->
     IF k = "last_amount" THEN amount
     ELSE IF k = "last_name" THEN name
     ELSE sess[k]]

\* A request: the method, the path, and the form or query string sent.
Request(method, route, form) == [method |-> method, route |-> route, form |-> form]

\* An exchange: the request with the response the handler gives it.
Rendered(req, template, context) ==
  [method |-> req.method, route |-> req.route, form |-> req.form, status |-> 200,
   template |-> template, context |-> context]

Redirect(req, location, args) ==
  [method |-> req.method, route |-> req.route, form |-> req.form, status |-> 302,
   location |-> location, args |-> args]

\* An exception no handler catches: 400 for a missing form key, 500 otherwise.
Failed(req, status, error) ==
  [method |-> req.method, route |-> req.route, form |-> req.form, status |-> status,
   error |-> error]

StoreUnchanged == UNCHANGED <<contributions, session, now, threads, confirmed>>

\* The amount raised to 1 when it is lower.
FormIntAtLeastOne(form, key) ==
  LET n == IF key \in DOMAIN form THEN ParseInt(form[key]) ELSE PyInt(0)
  IN  IF n # ValueError /\ n.v < 1 THEN PyInt(1) ELSE n

\* An amount that does not parse taken as 0.
FormIntLenient(form, key) ==
  LET n == IF key \in DOMAIN form THEN ParseInt(form[key]) ELSE PyInt(0)
  IN  IF n = ValueError THEN PyInt(0) ELSE n

\* int() of a form value, or of the integer default when the field is absent.
FormInt(form, key) == IF key \in DOMAIN form THEN ParseInt(form[key]) ELSE PyInt(0)

Index(c) ==
  /\ response = NoResponse
  /\ response' = Rendered(Request("GET", "/", EmptyDict), "index.html", <<>>)
  /\ UNCHANGED call
  /\ StoreUnchanged

Contribute(c, form) ==
  /\ response = NoResponse
  /\ response' =
       IF "amount" \notin DOMAIN form THEN Failed(Request("POST", "/contribute", form), 400, "BadRequestKeyError")
       ELSE IF ParseInt(form.amount) = ValueError
            THEN Failed(Request("POST", "/contribute", form), 500, "ValueError")
       ELSE IF "name" \notin DOMAIN form
            THEN Failed(Request("POST", "/contribute", form), 400, "BadRequestKeyError")
       ELSE Redirect(Request("POST", "/contribute", form), "/payment",
                     [amount |-> IntToText(ParseInt(form.amount).v), name |-> form.name])
  /\ UNCHANGED call
  /\ StoreUnchanged

\* What process_payment stores for a form whose amount parses.
PaymentRecord(form, t) ==
  Contribution(Get(form, "name", "Anonymous"), FormInt(form, "amount").v, t)

ProcessPayment(c, form) ==
  /\ response = NoResponse
  /\ IF FormInt(form, "amount") = ValueError
     THEN /\ response' = Failed(Request("POST", "/process_payment", form), 500, "ValueError")
          /\ UNCHANGED <<contributions, session, confirmed>>
     ELSE LET rec == PaymentRecord(form, now)
          IN  /\ Len(contributions) < MaxContribs
              /\ contributions' = StoreAppend(contributions, rec)
              /\ session' = [session EXCEPT ![c] = SessionSet(@, rec.amount, rec.name)]
              /\ confirmed' = Append(confirmed, [form |-> form, time |-> now])
              /\ response' = Redirect(Request("POST", "/process_payment", form), "/success", <<>>)
  /\ UNCHANGED <<call, now, threads>>

Payment(c, args) ==
  /\ response = NoResponse
  /\ response' =
       IF FormInt(args, "amount") = ValueError THEN Failed(Request("GET", "/payment", args), 500, "ValueError")
       ELSE Rendered(Request("GET", "/payment", args), "payment.html",
                     [amount |-> FormInt(args, "amount").v,
                      name |-> Get(args, "name", "Anonymous")])
  /\ UNCHANGED call
  /\ StoreUnchanged

Success(c) ==
  /\ response = NoResponse
  /\ response' = Rendered(Request("GET", "/success", EmptyDict), "success.html", <<>>)
  /\ UNCHANGED call
  /\ StoreUnchanged

ViewContributions(c) ==
  /\ response = NoResponse
  /\ response' = Rendered(Request("GET", "/contributions", EmptyDict), "contributions.html",
                          [contributions |-> contributions,
                           total |-> SumAmounts(contributions)])
  /\ UNCHANGED call
  /\ StoreUnchanged

GiftKeyword(c) ==
  /\ response = NoResponse
  /\ response' = Rendered(Request("GET", "/gift_keyword", EmptyDict), "gift_keyword.html",
                          [amount |-> SumAmounts(contributions)])
  /\ UNCHANGED call
  /\ StoreUnchanged

\* The clock moves between requests.
Tick ==
  /\ response = NoResponse
  /\ now < MaxClock
  /\ now' = now + 1
  /\ UNCHANGED <<contributions, session, response, call, threads, confirmed>>

PracticalMax == 15

FunMax == 25

LuxuryMax == 35

\* The thresholds compared with < in place of <=.
DefaultKeywordStrict(amount) ==
  IF amount < PracticalMax THEN KwPractical
  ELSE IF amount < FunMax THEN KwFun
  ELSE IF amount < LuxuryMax THEN KwLuxury
  ELSE KwPremium

\* The keyword a GET derives from the total.
DefaultKeyword(amount) ==
  IF amount <= PracticalMax THEN KwPractical
  ELSE IF amount <= FunMax THEN KwFun
  ELSE IF amount <= LuxuryMax THEN KwLuxury
  ELSE KwPremium

\* The keyword a POST names: the chosen one, or the custom text.
PostedKeyword(form) ==
  LET keyword == Get(form, "keyword", KwNone)
  IN  IF keyword = KwCustom THEN Get(form, "custom_keyword", KwGeneral) ELSE keyword

GiftForms ==
  {EmptyDict, [keyword |-> KwFun], [keyword |-> KwTitledPractical], [keyword |-> KwCustom],
   [keyword |-> KwCustom, custom_keyword |-> KwSciFi]}

\* What the generator and the image API answer during a request.
AppGens ==
  {GenRaise, GenText(JsonArray(<<Obj([name |-> "Mug", price |-> PyStr(<<"$", "5">>)])>>))}

AppEnvs == {ImageEnv("k3y", HttpOk(Urls(2)), HttpOk(Urls(2)))}

GiftSuggestions(c, method, form, gen, env) ==
  LET amount  == SumAmounts(contributions)
      keyword == IF method = "POST" THEN PostedKeyword(form) ELSE DefaultKeyword(amount)
      done    == SuggestionCall(keyword, amount, gen, env)
  IN  /\ response = NoResponse
      /\ call' = done
      /\ response' =
           IF call'.result.via = "raised"
           THEN Rendered(Request(method, "/gift_suggestions", form), "gift_suggestions.html",
                         [keyword |-> keyword, amount |-> amount, suggestions |-> <<>>,
                          error |-> "Unable to generate suggestions"])
           ELSE Rendered(Request(method, "/gift_suggestions", form), "gift_suggestions.html",
                         [keyword |-> keyword, amount |-> amount,
                          suggestions |-> call'.result.value])
      /\ StoreUnchanged

\* The response leaves the server; the next request can be taken.
Send ==
  /\ response # NoResponse
  /\ response' = NoResponse
  /\ call' = NoCall
  /\ StoreUnchanged

Init == InitStore /\ call = NoCall

Next ==
  \/ \E c \in Clients : Index(c)
  \/ \E c \in Clients, form \in Forms : Contribute(c, form)
  \/ \E c \in Clients, form \in Forms : ProcessPayment(c, form)
  \/ \E c \in Clients, args \in Forms : Payment(c, args)
  \/ \E c \in Clients : Success(c)
  \/ \E c \in Clients : ViewContributions(c)
  \/ \E c \in Clients : GiftKeyword(c)
  \/ \E c \in Clients, gen \in AppGens, env \in AppEnvs : GiftSuggestions(c, "GET", EmptyDict, gen, env)
  \/ \E c \in Clients, form \in GiftForms, gen \in AppGens, env \in AppEnvs :
       GiftSuggestions(c, "POST", form, gen, env)
  \/ Send
  \/ Tick

Spec == Init /\ [][Next]_vars

----------------------------------------------------------------------------
(* The same handlers run by worker threads that share the list: each step   *)
(* is what one thread does between two points where the interpreter may     *)
(* switch threads.  list.append is one such step.                           *)

ConcUnchanged == UNCHANGED <<response, call>>

\* process_payment up to the append: the form is parsed, the record built.
BeginPayment(t, c, form) ==
  /\ threads[t] = Idle
  /\ IF FormInt(form, "amount") = ValueError
     THEN threads' = [threads EXCEPT ![t] =
                        [pc |-> "sent", response |-> Failed(Request("POST", "/process_payment", form), 500, "ValueError")]]
     ELSE /\ Len(contributions) + Cardinality({u \in ThreadIds : threads[u].pc = "append"})
               < MaxContribs
          /\ threads' = [threads EXCEPT ![t] =
                           [pc |-> "append", client |-> c, form |-> form,
                            rec |-> PaymentRecord(form, now)]]
  /\ UNCHANGED <<contributions, session, now, confirmed>>
  /\ ConcUnchanged

\* contributions.append(contribution)
AppendStep(t) ==
  /\ threads[t].pc = "append"
  /\ contributions' = StoreAppend(contributions, threads[t].rec)
  /\ threads' = [threads EXCEPT ![t].pc = "session"]
  /\ UNCHANGED <<session, now, confirmed>>
  /\ ConcUnchanged

\* The session is written and the redirect returned: the payment is confirmed.
SessionStep(t) ==
  /\ threads[t].pc = "session"
  /\ session' = [session EXCEPT ![threads[t].client] =
                   SessionSet(@, threads[t].rec.amount, threads[t].rec.name)]
  /\ confirmed' = Append(confirmed, [form |-> threads[t].form,
                                      time |-> threads[t].rec.timestamp])
  /\ threads' = [threads EXCEPT ![t] =
                   [pc |-> "sent", response |-> Redirect(Request("POST", "/process_payment", threads[t].form),
                                         "/success", <<>>)]]
  /\ UNCHANGED <<contributions, now>>
  /\ ConcUnchanged

\* view_contributions: the generator over the list is created.
BeginView(t) ==
  /\ threads[t] = Idle
  /\ threads' = [threads EXCEPT ![t] = [pc |-> "sum", idx |-> 0, total |-> 0]]
  /\ UNCHANGED <<contributions, session, now, confirmed>>
  /\ ConcUnchanged

\* One step of sum(): the list iterator yields the next element if the list
\* has one at its index now, else the sum is complete and rendering starts.
SumStep(t) ==
  /\ threads[t].pc = "sum"
  /\ threads' = [threads EXCEPT ![t] =
       IF @.idx < Len(contributions)
       THEN [pc |-> "sum", idx |-> @.idx + 1,
             total |-> @.total + contributions[@.idx + 1].amount]
       ELSE [pc |-> "render", total |-> @.total, idx |-> 0, shown |-> <<>>]]
  /\ UNCHANGED <<contributions, session, now, confirmed>>
  /\ ConcUnchanged

\* One step of the template's loop over the same list object.
RenderStep(t) ==
  /\ threads[t].pc = "render"
  /\ threads' = [threads EXCEPT ![t] =
       IF @.idx < Len(contributions)
       THEN [@ EXCEPT !.idx = @ + 1, !.shown = Append(@, contributions[threads[t].idx + 1])]
       ELSE [pc |-> "sent",
             response |-> Rendered(Request("GET", "/contributions", EmptyDict), "contributions.html",
                                   [contributions |-> @.shown, total |-> @.total])]]
  /\ UNCHANGED <<contributions, session, now, confirmed>>
  /\ ConcUnchanged

\* The response leaves the server; the thread takes the next request.
Finish(t) ==
  /\ threads[t].pc = "sent"
  /\ threads' = [threads EXCEPT ![t] = Idle]
  /\ UNCHANGED <<contributions, session, now, confirmed>>
  /\ ConcUnchanged

NextConc ==
  \/ \E t \in ThreadIds, c \in Clients, form \in Forms : BeginPayment(t, c, form)
  \/ \E t \in ThreadIds : AppendStep(t)
  \/ \E t \in ThreadIds : SessionStep(t)
  \/ \E t \in ThreadIds : BeginView(t)
  \/ \E t \in ThreadIds : SumStep(t)
  \/ \E t \in ThreadIds : RenderStep(t)
  \/ \E t \in ThreadIds : Finish(t)
  \/ Tick

SpecConc == Init /\ [][NextConc]_vars

----------------------------------------------------------------------------
(* Properties.                                                              *)

\* The amount a confirmed request carried: int() of its amount field, 0 when
\* the form has none.
PostedAmount(req) ==
  IF "amount" \in DOMAIN req.form THEN ParseInt(req.form.amount).v ELSE 0

\* a1 + ... + aN over the confirmed requests, summed from the last one.
RECURSIVE ConfirmedTotal(_)
ConfirmedTotal(reqs) ==
  IF reqs = <<>> THEN 0
  ELSE ConfirmedTotal(SubSeq(reqs, 1, Len(reqs) - 1)) + PostedAmount(reqs[Len(reqs)])

IsPrefix(s, t) == Len(s) <= Len(t) /\ SubSeq(t, 1, Len(s)) = s

ViewAnswered == response.route = "/contributions" /\ response.status = 200

\* C1: after N successful POST /process_payment requests with amounts a1..aN,
\* GET /contributions renders total = a1 + ... + aN and lists exactly those N
\* records in the order the payments were confirmed.
C1_TotalAndOrder ==
  ViewAnswered =>
    /\ response.context.total = ConfirmedTotal(confirmed)
    /\ Len(response.context.contributions) = Len(confirmed)
    /\ \A i \in 1..Len(confirmed) :
         /\ response.context.contributions[i].amount = PostedAmount(confirmed[i])
         /\ response.context.contributions[i].name = Get(confirmed[i].form, "name", "Anonymous")
         /\ response.context.contributions[i].timestamp = confirmed[i].time

\* C1's case: two different payments confirmed, then the list is viewed.
C1_Witness ==
  /\ ViewAnswered
  /\ Len(confirmed) = 2
  /\ PostedAmount(confirmed[1]) # PostedAmount(confirmed[2])
  /\ response.context.total = 35

GiftGetAnswered ==
  response.route = "/gift_suggestions" /\ response.method = "GET" /\ response.status = 200

\* The band of a total T, as the claim gives it.
Band(T) ==
  CASE T <= 15 -> KwPractical
    [] 15 < T /\ T <= 25 -> KwFun
    [] 25 < T /\ T <= 35 -> KwLuxury
    [] T > 35 -> KwPremium

\* C2: on GET /gift_suggestions the keyword is derived from the total T of the
\* stored amounts (T <= 15 practical, 15 < T <= 25 fun, 25 < T <= 35 luxury,
\* T > 35 premium, the boundaries in the lower band), and the budget passed to
\* the generator is T.
C2_KeywordBands ==
  GiftGetAnswered =>
    /\ response.context.keyword = Band(ConfirmedTotal(confirmed))
    /\ call.fn = "get_gift_suggestions"
    /\ call.keyword = Band(ConfirmedTotal(confirmed))
    /\ call.budget = ConfirmedTotal(confirmed)
    /\ response.context.amount = ConfirmedTotal(confirmed)

\* C2's case: a total on a boundary, answered with the lower band's keyword.
C2_Witness ==
  /\ GiftGetAnswered
  /\ ConfirmedTotal(confirmed) = 35
  /\ response.context.keyword = KwLuxury
  /\ call.budget = 35

PaymentConfirmed ==
  response.route = "/process_payment" /\ response.status = 302

\* C5: the store after a step has the store before it as a prefix; only a
\* successful POST /process_payment changes it, by appending exactly one
\* record; every other endpoint leaves it unchanged.
C5_AppendOnly ==
  [][ /\ IsPrefix(contributions, contributions')
      /\ contributions' # contributions =>
           /\ Len(contributions') = Len(contributions) + 1
           /\ PaymentConfirmed'
      /\ (response = NoResponse /\ PaymentConfirmed') =>
           Len(contributions') = Len(contributions) + 1
      /\ (response' # NoResponse /\ ~PaymentConfirmed') => contributions' = contributions
    ]_vars

\* C5's case: a payment confirmed on a store that already held a record.
C5_Witness == PaymentConfirmed /\ Len(contributions) = 2

\* C6 as stated: every stored amount is strictly greater than zero.
C6_AllPositive == \A i \in 1..Len(contributions) : contributions[i].amount > 0

\* C6, amended: every stored amount is the integer int() read from the posted
\* amount field, or 0 when the field was absent; zero and negative amounts are
\* stored like any other.
C6_StoredAsParsed ==
  /\ Len(contributions) = Len(confirmed)
  /\ \A i \in 1..Len(contributions) :
       /\ contributions[i].amount \in Int
       /\ contributions[i].amount = PostedAmount(confirmed[i])

\* C6's case: the store holds a negative amount and a zero from an absent field.
C6_Witness ==
  \E i, j \in 1..Len(contributions) :
    /\ contributions[i].amount < 0
    /\ contributions[j].amount = 0 /\ "amount" \notin DOMAIN confirmed[j].form

Unparseable(form) == "amount" \in DOMAIN form /\ ParseInt(form.amount) = ValueError

\* C9: a POST /process_payment (or /contribute) whose amount does not parse as
\* an integer fails with a server error and leaves the store and the session
\* as they were.
C9_BadAmountNoEffect ==
  [][ (/\ response = NoResponse
       /\ response' # NoResponse
       /\ response'.route \in {"/process_payment", "/contribute"}
       /\ Unparseable(response'.form))
      => /\ response'.status = 500
         /\ response'.error = "ValueError"
         /\ contributions' = contributions
         /\ session' = session
         /\ confirmed' = confirmed
    ]_vars

\* C9's case: a payment with an unparseable amount refused after another
\* client's payment was stored.
C9_Witness ==
  /\ response.route = "/process_payment"
  /\ response.status = 500
  /\ Unparseable(response.form)
  /\ Len(contributions) = 1
  /\ \E c \in Clients : "last_amount" \in DOMAIN session[c]

\* The records the confirmed requests should have left in the store.
ConfirmedRecords ==
  [i \in 1..Len(confirmed) |->
     Contribution(Get(confirmed[i].form, "name", "Anonymous"), PostedAmount(confirmed[i]),
                  confirmed[i].time)]

RECURSIVE ShownTotal(_)
ShownTotal(shown) ==
  IF shown = <<>> THEN 0
  ELSE ShownTotal(SubSeq(shown, 1, Len(shown) - 1)) + shown[Len(shown)].amount

ViewSent(t) ==
  /\ threads[t].pc = "sent"
  /\ threads[t].response.route = "/contributions"

\* C10: however concurrent POST /process_payment requests interleave with a
\* GET /contributions, no confirmed contribution is lost from the store, and
\* the total a /contributions response renders is the sum of the amounts of
\* the list that same response renders.
C10_ConsistentUnderInterleaving ==
  /\ \A i \in 1..Len(confirmed) : \E j \in 1..Len(contributions) :
       contributions[j] = ConfirmedRecords[i]
  /\ Len(contributions) >= Len(confirmed)
  /\ \A t \in ThreadIds :
       ViewSent(t) =>
         threads[t].response.context.total = ShownTotal(threads[t].response.context.contributions)

GenFailed(c) == c.gen.kind = "raise" \/ c.gen.parsed.json \in {"invalid", "scalar"}

SuggestionsDone == call.fn = "get_gift_suggestions" /\ call.done

\* Not practical, fun, luxury or premium in any letter case.
Unrecognized(keyword) ==
  /\ keyword # KwNone
  /\ \A k \in {KwPractical, KwFun, KwLuxury, KwPremium} :
       Len(k) # Len(keyword) \/ \E i \in 1..Len(k) : LowerChar(keyword[i]) # k[i]

GenericFallbackCase == SuggestionsDone /\ GenFailed(call) /\ Unrecognized(call.keyword)

\* C3 as stated: the two generic items' names embed the keyword exactly as the
\* caller supplied it.
C3_NamesEmbedVerbatim ==
  GenericFallbackCase =>
    /\ call.result.via = "fallback"
    /\ Len(call.result.value) = 2
    /\ call.result.value[1].name = Fmt("Premium ", call.keyword, " Gift")
    /\ call.result.value[2].name = Fmt("Custom ", call.keyword, " Experience")

IsLetter(c) == IsLower(c) \/ IsUpper(c)

\* w is s in title case: the same characters up to letter case, a letter upper
\* case exactly when no letter precedes it.
IsTitleOf(w, s) ==
  /\ Len(w) = Len(s)
  /\ \A i \in 1..Len(s) :
       /\ LowerChar(w[i]) = LowerChar(s[i])
       /\ IsLetter(s[i]) => (IsUpper(w[i]) <=> (i = 1 \/ ~IsLetter(s[i - 1])))

\* C3, amended: the generic fallback has exactly two items whose names embed
\* the keyword in title case (each run of letters capitalised, the rest lower
\* case); the descriptions and reasons embed it as supplied.
C3_NamesEmbedTitleCase ==
  GenericFallbackCase =>
    /\ call.result.via = "fallback"
    /\ Len(call.result.value) = 2
    /\ call.result.value[1].name.pre = "Premium " /\ call.result.value[1].name.post = " Gift"
    /\ call.result.value[2].name.pre = "Custom " /\ call.result.value[2].name.post = " Experience"
    /\ \A i \in 1..2 :
         /\ IsTitleOf(call.result.value[i].name.kw, call.keyword)
         /\ call.result.value[i].description.kw = call.keyword
         /\ call.result.value[i].reason.kw = call.keyword

\* C3's case: a failing call with an unrecognized keyword that title case
\* changes.
C3_Witness ==
  /\ GenericFallbackCase
  /\ call.keyword = <<"f", "-", "n">>
  /\ call.result.value[1].name.kw = <<"F", "-", "N">>

PracticalNames == <<"Multi-tool Kit", "Insulated Water Bottle", "Portable Charger">>

\* C4: when the generative call fails for keyword "practical" in any letter
\* case, the fixed practical list of 2 to 3 items is returned, every price
\* equal to the budget supplied.
C4_PracticalFallback ==
  (SuggestionsDone /\ GenFailed(call) /\ call.keyword # KwNone
     /\ Lower(call.keyword) = KwPractical) =>
    /\ call.result.via = "fallback"
    /\ Len(call.result.value) \in 2..3
    /\ \A i \in 1..Len(call.result.value) :
         /\ call.result.value[i].price = PyInt(call.budget)
         /\ call.result.value[i].name = Lit(PracticalNames[i])

\* C4's case: "Practical" with a negative budget and a failing call.
C4_Witness ==
  /\ SuggestionsDone /\ GenFailed(call)
  /\ call.keyword = KwTitledPractical
  /\ call.budget < 0
  /\ call.result.via = "fallback"

ImagesDone == call.fn = "get_gift_images" /\ call.done

LookupFails(http) ==
  \/ http.kind \in {"request_error", "status_error", "json_error", "not_dict"}
  \/ \E i \in 1..Len(http.results) : http.results[i] = Malformed

\* C7: get_gift_images returns an empty list whenever the credential is
\* missing or empty and whenever the request, the status check or the parsing
\* fails; what it returns is always a list of urls.
C7_ImagesEmptyOnFailure ==
  ImagesDone =>
    /\ (call.access_key \in {NoneVal, ""} \/ LookupFails(call.http)) => call.result = <<>>
    /\ \A i \in 1..Len(call.result) : call.result[i] \in {"u1", "u2"}

\* C7's case: an empty credential while the API would have answered with urls.
C7_Witness ==
  /\ ImagesDone
  /\ call.access_key = ""
  /\ call.http = HttpOk(<<"u1", "u2">>)
  /\ call.result = <<>>

ParsedAsArray == SuggestionsDone /\ call.gen.kind = "text" /\ call.gen.parsed.json = "array"

IsNumber(v) == v.t \in {"int", "float"}

HasPrice(x) == x.json = "object" /\ "price" \in DOMAIN x.fields

\* C8 as stated: every parsed suggestion with a string price is returned with
\* a number in its place, every one with a number price with that number.
C8_EveryStringPriceNormalized ==
  ParsedAsArray =>
    /\ call.result.via = "generated"
    /\ Len(call.result.value) = Len(call.gen.parsed.items)
    /\ \A i \in 1..Len(call.gen.parsed.items) :
         LET x == call.gen.parsed.items[i]
         IN  /\ (HasPrice(x) /\ x.fields.price.t = "str") => IsNumber(call.result.value[i].price)
             /\ (HasPrice(x) /\ IsNumber(x.fields.price)) =>
                  call.result.value[i].price = x.fields.price

\* The text without '$' and ',' and without the blanks around it.
RECURSIVE Cleaned(_)
Cleaned(s) ==
  IF s = <<>> THEN <<>>
  ELSE IF Head(s) \in {"$", ","} THEN Cleaned(Tail(s))
  ELSE <<Head(s)>> \o Cleaned(Tail(s))

RECURSIVE Trimmed(_)
Trimmed(s) ==
  IF s # <<>> /\ Head(s) = " " THEN Trimmed(Tail(s))
  ELSE IF s # <<>> /\ s[Len(s)] = " " THEN Trimmed(SubSeq(s, 1, Len(s) - 1))
  ELSE s

\* Reading a decimal literal from the left: the digits read so far, how many
\* of them follow the point, whether a point and a digit were seen.
RECURSIVE ReadDecimal(_, _, _, _, _)
ReadDecimal(s, m, e, point, digit) ==
  IF s = <<>> THEN (IF digit THEN PyFloat(m, e) ELSE ValueError)
  ELSE IF Head(s) = "." THEN (IF point THEN ValueError ELSE ReadDecimal(Tail(s), m, e, TRUE, digit))
  ELSE IF Head(s) \in {"0", "1", "2", "3", "4", "5", "6", "7", "8", "9"}
       THEN ReadDecimal(Tail(s), 10 * m + DigitVal(Head(s)), IF point THEN e + 1 ELSE e, point, TRUE)
  ELSE ValueError

NumericValue(text) == ReadDecimal(Trimmed(Cleaned(text)), 0, 0, FALSE, FALSE)

\* Every element is an object and every string price reads as a number.
AllPricesReadable(items) ==
  \A i \in 1..Len(items) :
    /\ items[i].json = "object"
    /\ (HasPrice(items[i]) /\ items[i].fields.price.t = "str") =>
         NumericValue(items[i].fields.price.s) # ValueError

\* C8, amended: when the response parses as a JSON array of objects whose
\* string prices all read as decimal numbers once every '$' and ',' is removed,
\* each string price is returned as that number ("$25.00" as 25.0) and each
\* number price unchanged; when an element is no object or a string price does
\* not read as a number, the parsed response is dropped and the static
\* fallback returned.
C8_ReadablePricesNormalized ==
  ParsedAsArray =>
    IF AllPricesReadable(call.gen.parsed.items)
    THEN /\ call.result.via = "generated"
         /\ Len(call.result.value) = Len(call.gen.parsed.items)
         /\ \A i \in 1..Len(call.gen.parsed.items) :
              LET x == call.gen.parsed.items[i]
              IN  /\ (HasPrice(x) /\ x.fields.price.t = "str") =>
                       call.result.value[i].price = NumericValue(x.fields.price.s)
                  /\ (HasPrice(x) /\ x.fields.price.t # "str") =>
                       call.result.value[i].price = x.fields.price
                  /\ ~HasPrice(x) => "price" \notin DOMAIN call.result.value[i]
    ELSE call.result.via = "fallback"

\* C8's case: "$25.00" beside a number price, returned as 25.0 and unchanged.
C8_Witness ==
  /\ ParsedAsArray
  /\ call.result.via = "generated"
  /\ \E i, j \in 1..Len(call.gen.parsed.items) :
       /\ HasPrice(call.gen.parsed.items[i]) /\ HasPrice(call.gen.parsed.items[j])
       /\ call.gen.parsed.items[i].fields.price = PyStr(<<"$", "2", "5", ".", "0", "0">>)
       /\ call.result.value[i].price = [t |-> "float", m |-> 25, e |-> 0]
       /\ call.gen.parsed.items[j].fields.price = PyInt(20)
       /\ call.result.value[j].price = PyInt(20)

=============================================================================
